---- MODULE Spec2Model ----
(***************************************************************************)
(* BreachGuard API: the POST /api/check handler (check_email_breaches in   *)
(* main.py) with the Breach / Check schemas of schemas.py.  One request is *)
(* followed from its arrival to its response or error; the upstream reply, *)
(* the environment's HIBP_API_KEY and the outcome of create_document are   *)
(* chosen by the environment.                                              *)
(***************************************************************************)
EXTENDS Integers, Sequences, FiniteSets, TLC

(* ---------------------------------------------------------------- bounds *)
\* longest JSON array the upstream service answers with
MaxRecords == 2

(* ------------------------------------------------------------- constants *)
\* resp.text[:200], str(e)[:200]
TruncLen == 200
\* "PwnCount": 12345 of the demo record
DemoPwnCount == 12345

(* ------------------------------------------------------- Python values   *)
\* A JSON / Python value, tagged with its type so that truthiness and the
\* schema's type validation can be computed.
Val(t, s, n, b, l) == [t |-> t, s |-> s, n |-> n, b |-> b, l |-> l]
None     == Val("none", "", 0, FALSE, <<>>)
PyStr(x)   == Val("str", x, 0, FALSE, <<>>)
PyInt(x)   == Val("int", "", x, FALSE, <<>>)
PyBool(x)  == Val("bool", "", 0, x, <<>>)
PyList(x)  == Val("list", "", 0, FALSE, x)

\* Python truthiness: None, "", 0, False and [] are falsy.
Truthy(v) ==
    CASE v.t = "none" -> FALSE
      [] v.t = "str"  -> v.s # ""
      [] v.t = "int"  -> v.n # 0
      [] v.t = "bool" -> v.b
      [] v.t = "list" -> v.l # <<>>

\* Python's `a or b`: a when a is truthy, else b.
PyOr(a, b) == IF Truthy(a) THEN a ELSE b

\* A text of which only the origin and the length matter; a slice of it is
\* the prefix of the same text.
Text(src, len) == [src |-> src, len |-> len]
Slice(t, k) == [src |-> t.src, len |-> IF t.len <= k THEN t.len ELSE k]

(* ------------------------------------------------------------- raw data  *)
EmptyDict == [k \in {} |-> None]
\* dict.get(key): the value, or None when the key is absent
DictGet(b, k) == IF k \in DOMAIN b THEN b[k] ELSE None

Dict(d) == [isdict |-> TRUE, d |-> d]
\* an element that is no mapping (a string, a number, null): it has no .get
NonDict == [isdict |-> FALSE, d |-> EmptyDict]

HibpUpper ==
    ("Name" :> PyStr("Adobe")) @@ ("Domain" :> PyStr("adobe.com")) @@
    ("BreachDate" :> PyStr("2013-10-04")) @@ ("AddedDate" :> PyStr("2013-12-04")) @@
    ("PwnCount" :> PyInt(152)) @@ ("Description" :> PyStr("Adobe breach")) @@
    ("DataClasses" :> PyList(<<"Email addresses", "Password hints">>)) @@
    ("IsVerified" :> PyBool(TRUE))
HibpLower ==
    ("name" :> PyStr("Adobe")) @@ ("domain" :> PyStr("adobe.com")) @@
    ("breachDate" :> PyStr("2013-10-04")) @@ ("addedDate" :> PyStr("2013-12-04")) @@
    ("pwnCount" :> PyInt(152)) @@ ("description" :> PyStr("Adobe breach")) @@
    ("dataClasses" :> PyList(<<"Email addresses", "Password hints">>)) @@
    ("isVerified" :> PyBool(TRUE))
HibpMixed ==
    ("Name" :> PyStr("Adobe")) @@ ("domain" :> PyStr("adobe.com")) @@
    ("BreachDate" :> PyStr("2013-10-04")) @@ ("addedDate" :> PyStr("2013-12-04")) @@
    ("pwnCount" :> PyInt(152)) @@ ("Description" :> PyStr("Adobe breach")) @@
    ("DataClasses" :> PyList(<<"Email addresses", "Password hints">>)) @@
    ("isVerified" :> PyBool(TRUE))
FalsyUpper ==
    ("Name" :> PyStr("Linode")) @@ ("Domain" :> PyStr("")) @@ ("PwnCount" :> PyInt(0)) @@
    ("DataClasses" :> PyList(<<>>)) @@ ("IsVerified" :> PyBool(FALSE))
FalsyLower ==
    ("name" :> PyStr("Linode")) @@ ("domain" :> PyStr("")) @@ ("pwnCount" :> PyInt(0)) @@
    ("dataClasses" :> PyList(<<>>)) @@ ("isVerified" :> PyBool(FALSE))
BothKeys ==
    ("Name" :> PyStr("")) @@ ("name" :> PyStr("Dropbox")) @@
    ("IsVerified" :> None) @@ ("isVerified" :> PyBool(TRUE)) @@
    ("PwnCount" :> PyInt(7)) @@ ("pwnCount" :> PyInt(9))
BadCount == ("Name" :> PyStr("Adobe")) @@ ("PwnCount" :> PyStr("n/a"))

\* the elements an upstream JSON array (or other iterable) may hold
RawItems ==
    { Dict(HibpUpper), Dict(HibpLower), Dict(HibpMixed), Dict(EmptyDict),
      Dict(FalsyUpper), Dict(FalsyLower), Dict(BothKeys), Dict(BadCount), NonDict }

SeqUpTo(S, n) == UNION { [1..k -> S] : k \in 0..n }

\* What resp.json() gives: a ValueError ("invalid"), a value that cannot be
\* iterated (null, a number: "scalar"), or an iterable of elements (a JSON
\* array; an object or a string iterate as their keys or characters, which
\* are non-mapping elements).
Json(kind, items) == [kind |-> kind, items |-> items]
JsonBodies ==
    { Json("invalid", <<>>), Json("scalar", <<>>) }
      \cup { Json("iterable", s) : s \in SeqUpTo(RawItems, MaxRecords) }
Unset == Json("unset", <<>>)

(* ------------------------------------------------------------ the inputs *)
\* an email as its pieces: local part, "@", domain
Emails ==
    { <<l, "@", d>> : l \in {"user", "Bob"},
                      d \in {"example.com", "test.com", "Example.COM", "other.org"} }
\* os.getenv("HIBP_API_KEY"): unset, set to the empty string, or set
EnvKeys == { None, PyStr(""), PyStr("hibp-key") }
Statuses == { 200, 204, 304, 400, 404, 429, 503 }
BodyTexts == { Text("body", 0), Text("body", 200), Text("body", 201) }
\* str(e) of the exceptions caught at the end of the handler
ExcTexts == { Text("exc", 40), Text("exc", 350) }

\* create_document("check", result): it returns, or it raises an Exception
\* (the database is not available); it does not change the record it is given
CreateDocumentRaises == BOOLEAN

NoResp == [kind |-> "none", status |-> 0, text |-> Text("", 0)]
NetErr == [kind |-> "neterr", status |-> 0, text |-> Text("", 0)]
Http(st, tx) == [kind |-> "http", status |-> st, text |-> tx]

(* ------------------------------------------------------------- the state *)
VARIABLES
    pc,            \* where the handler is: idle, getenv, fetch, normalize,
                   \* construct, persist, respond, done
    email,         \* payload.email
    hibp_key,      \* os.getenv("HIBP_API_KEY")
    url,           \* TRUE when url is the lookup URL, FALSE when it is None
    is_demo,       \* the local is_demo
    resp,          \* what requests.get returned (or that it raised)
    breaches_raw,  \* the raw records
    breaches,      \* the normalized Breach list
    result,        \* the Check record
    db_raised,     \* whether create_document raised
    persisted,     \* the records handed to create_document, in order
    gets,          \* number of calls of requests.get in this request
    response,      \* the EmailCheckResponse returned
    error          \* the HTTPException raised to the caller

vars == <<pc, email, hibp_key, url, is_demo, resp, breaches_raw, breaches,
          result, db_raised, persisted, gets, response, error>>

NoEmail == <<>>
NoCheck == [made |-> FALSE, email |-> NoEmail, found |-> FALSE, count |-> 0,
            breaches |-> <<>>, source |-> "", is_demo |-> FALSE]
NoResponse == [sent |-> FALSE, email |-> NoEmail, found |-> FALSE, count |-> 0,
               breaches |-> <<>>, source |-> "", is_demo |-> FALSE]
NoError == [raised |-> FALSE, status_code |-> 0, detail |-> Text("", 0)]

Init ==
    /\ pc = "idle"
    /\ email = NoEmail
    /\ hibp_key = None
    /\ url = FALSE
    /\ is_demo = FALSE
    /\ resp = NoResp
    /\ breaches_raw = Unset
    /\ breaches = <<>>
    /\ result = NoCheck
    /\ db_raised = FALSE
    /\ persisted = <<>>
    /\ gets = 0
    /\ response = NoResponse
    /\ error = NoError

(* ------------------------------------------------------ pure operations  *)
\* `if hibp_key:` : the real lookup is chosen when the key is truthy
UseRealLookupNotNone(key) == key # None
UseRealLookup(key) == Truthy(key)

\* requests' Response.ok: raise_for_status() raises for 400 <= status < 600
RespOk(status) == ~(400 <= status /\ status < 600)

\* the three branches on resp.status_code
ClassifyNo404(status) == IF RespOk(status) THEN "json" ELSE "raise"
Classify(status) ==
    IF status = 404 THEN "empty"
    ELSE IF RespOk(status) THEN "json"
    ELSE "raise"

\* HTTPException(status_code=resp.status_code, detail=resp.text[:200])
HTTPStatusErrorUncut(r) ==
    [raised |-> TRUE, status_code |-> r.status, detail |-> r.text]
HTTPStatusError(r) ==
    [raised |-> TRUE, status_code |-> r.status, detail |-> Slice(r.text, TruncLen)]

\* HTTPException(status_code=500, detail=str(e)[:200])
InternalErrorUncut(msg) == [raised |-> TRUE, status_code |-> 500, detail |-> msg]
InternalError(msg) ==
    [raised |-> TRUE, status_code |-> 500, detail |-> Slice(msg, TruncLen)]

\* str.split("@")[-1]: the pieces after the last "@" (all of them if none)
SplitLast(e) ==
    LET ats == { i \in 1..Len(e) : e[i] = "@" }
        last == IF ats = {} THEN 0 ELSE CHOOSE i \in ats : \A j \in ats : j <= i
    IN  SubSeq(e, last + 1, Len(e))

\* str.lower() on one piece
LowerTok(t) ==
    CASE t = "Example.COM" -> "example.com"
      [] t = "Bob"         -> "bob"
      [] OTHER             -> t
Lower(sq) == [i \in 1..Len(sq) |-> LowerTok(sq[i])]

\* domain = email.split("@")[-1].lower()
DomainOfNoLower(e) == SplitLast(e)
DomainOf(e) == Lower(SplitLast(e))

\* the demo provider: one sample breach for the recognizable domains
DemoRecord(d) ==
    ("Name" :> PyStr("ExampleBreach")) @@ ("Domain" :> PyStr(d)) @@
    ("BreachDate" :> PyStr("2023-09-10")) @@ ("AddedDate" :> PyStr("2023-10-01")) @@
    ("PwnCount" :> PyInt(DemoPwnCount)) @@
    ("Description" :> PyStr("Sample demo breach to showcase UI.")) @@
    ("DataClasses" :> PyList(<<"Email addresses", "Passwords">>)) @@
    ("IsVerified" :> PyBool(TRUE))
DemoRaw(domain) ==
    IF domain \in { <<"example.com">>, <<"test.com">> }
    THEN Json("iterable", << Dict(DemoRecord(domain[1])) >>)
    ELSE Json("iterable", <<>>)

\* the keyword arguments of Breach(...) computed from one raw record
NormalizeRecord(b) ==
    [ name        |-> PyOr(PyOr(DictGet(b, "Name"), DictGet(b, "name")), PyStr("Unknown")),
      domain      |-> PyOr(DictGet(b, "Domain"), DictGet(b, "domain")),
      breachDate  |-> PyOr(DictGet(b, "BreachDate"), DictGet(b, "breachDate")),
      addedDate   |-> PyOr(DictGet(b, "AddedDate"), DictGet(b, "addedDate")),
      pwnCount    |-> PyOr(DictGet(b, "PwnCount"), DictGet(b, "pwnCount")),
      description |-> PyOr(DictGet(b, "Description"), DictGet(b, "description")),
      dataClasses |-> PyOr(PyOr(DictGet(b, "DataClasses"), DictGet(b, "dataClasses")),
                           PyList(<<>>)),
      isVerified  |-> IF DictGet(b, "IsVerified") # None
                      THEN DictGet(b, "IsVerified")
                      ELSE DictGet(b, "isVerified") ]

\* the field types of the Breach model: a value of another type is refused
BreachValid(a) ==
    /\ a.name.t = "str"
    /\ a.domain.t \in {"none", "str"}
    /\ a.breachDate.t \in {"none", "str"}
    /\ a.addedDate.t \in {"none", "str"}
    /\ a.pwnCount.t \in {"none", "int"}
    /\ a.description.t \in {"none", "str"}
    /\ a.dataClasses.t \in {"none", "list"}
    /\ a.isVerified.t \in {"none", "bool"}

\* result = Check(email=..., found=..., count=..., breaches=..., source=..., is_demo=...)
MakeCheckDefaults(e, bs, key) ==
    [made |-> TRUE, email |-> e, found |-> FALSE, count |-> Len(bs),
     breaches |-> bs, source |-> "hibp", is_demo |-> FALSE]
MakeCheck(e, bs, key) ==
    [made |-> TRUE, email |-> e, found |-> Len(bs) > 0, count |-> Len(bs),
     breaches |-> bs,
     source |-> IF Truthy(key) THEN "hibp" ELSE "demo",
     is_demo |-> ~Truthy(key)]

\* EmailCheckResponse(email=email, found=result.found, ...)
MakeResponse(e, r) ==
    [sent |-> TRUE, email |-> e, found |-> r.found, count |-> r.count,
     breaches |-> r.breaches, source |-> r.source, is_demo |-> r.is_demo]

(* ------------------------------------------------------------ the handler *)
\* email = payload.email: a request arrives (its email already validated)
Receive ==
    /\ pc = "idle"
    /\ \E e \in Emails : email' = e
    /\ pc' = "getenv"
    /\ UNCHANGED <<hibp_key, url, is_demo, resp, breaches_raw, breaches, result,
                   db_raised, persisted, gets, response, error>>

\* hibp_key = os.getenv(...); url and is_demo chosen from it; breaches = []
GetEnv ==
    /\ pc = "getenv"
    /\ \E k \in EnvKeys :
         /\ hibp_key' = k
         /\ url' = UseRealLookup(k)
         /\ is_demo' = ~UseRealLookup(k)
    /\ breaches' = <<>>
    /\ pc' = "fetch"
    /\ UNCHANGED <<email, resp, breaches_raw, result, db_raised, persisted, gets,
                   response, error>>

\* if url: resp = requests.get(...), then the branches on its status.  A
\* timeout or connection error is an exception caught by `except Exception`.
Get ==
    /\ pc = "fetch"
    /\ url
    /\ gets' = gets + 1
    /\ \/ /\ resp' = NetErr
          /\ \E m \in ExcTexts : error' = InternalError(m)
          /\ pc' = "done"
          /\ UNCHANGED breaches_raw
       \/ \E st \in Statuses, tx \in BodyTexts :
            /\ resp' = Http(st, tx)
            /\ \/ /\ Classify(st) = "empty"
                  /\ breaches_raw' = Json("iterable", <<>>)
                  /\ pc' = "normalize"
                  /\ UNCHANGED error
               \/ /\ Classify(st) = "json"
                  /\ \E j \in JsonBodies :
                       IF j.kind = "invalid"
                       THEN /\ \E m \in ExcTexts : error' = InternalError(m)
                            /\ pc' = "done"
                            /\ UNCHANGED breaches_raw
                       ELSE /\ breaches_raw' = j
                            /\ pc' = "normalize"
                            /\ UNCHANGED error
               \/ /\ Classify(st) = "raise"
                  /\ error' = HTTPStatusError(resp')
                  /\ pc' = "done"
                  /\ UNCHANGED breaches_raw
    /\ UNCHANGED <<email, hibp_key, url, is_demo, breaches, result, db_raised,
                   persisted, response>>

\* else: the demo provider, no outbound call
Demo ==
    /\ pc = "fetch"
    /\ ~url
    /\ breaches_raw' = DemoRaw(DomainOf(email))
    /\ pc' = "normalize"
    /\ UNCHANGED <<email, hibp_key, url, is_demo, resp, breaches, result, db_raised,
                   persisted, gets, response, error>>

\* a variant of the loop that stops at a record it cannot normalize and goes
\* on with the records normalized so far
NormalizeKeepingPrefix ==
    /\ pc = "normalize"
    /\ IF breaches_raw.kind # "iterable"
       THEN /\ \E m \in ExcTexts : error' = InternalError(m)
            /\ pc' = "done"
            /\ UNCHANGED breaches
       ELSE IF Len(breaches) < Len(breaches_raw.items)
       THEN LET b == breaches_raw.items[Len(breaches) + 1] IN
            IF ~b.isdict \/ ~BreachValid(NormalizeRecord(b.d))
            THEN /\ pc' = "construct"
                 /\ UNCHANGED <<breaches, error>>
            ELSE /\ breaches' = Append(breaches, NormalizeRecord(b.d))
                 /\ UNCHANGED <<pc, error>>
       ELSE /\ pc' = "construct"
            /\ UNCHANGED <<breaches, error>>
    /\ UNCHANGED <<email, hibp_key, url, is_demo, resp, breaches_raw, result,
                   db_raised, persisted, gets, response>>

\* for b in breaches_raw: breaches.append(Breach(...)): one iteration, or the
\* end of the loop.  Iterating a non-iterable, calling .get on a non-mapping
\* and a refused field value raise, and `except Exception` answers 500.
Normalize ==
    /\ pc = "normalize"
    /\ IF breaches_raw.kind # "iterable"
       THEN /\ \E m \in ExcTexts : error' = InternalError(m)
            /\ pc' = "done"
            /\ UNCHANGED breaches
       ELSE IF Len(breaches) < Len(breaches_raw.items)
       THEN LET b == breaches_raw.items[Len(breaches) + 1] IN
            IF ~b.isdict \/ ~BreachValid(NormalizeRecord(b.d))
            THEN /\ \E m \in ExcTexts : error' = InternalError(m)
                 /\ pc' = "done"
                 /\ UNCHANGED breaches
            ELSE /\ breaches' = Append(breaches, NormalizeRecord(b.d))
                 /\ UNCHANGED <<pc, error>>
       ELSE /\ pc' = "construct"
            /\ UNCHANGED <<breaches, error>>
    /\ UNCHANGED <<email, hibp_key, url, is_demo, resp, breaches_raw, result,
                   db_raised, persisted, gets, response>>

\* result = Check(...)
Construct ==
    /\ pc = "construct"
    /\ result' = MakeCheck(email, breaches, hibp_key)
    /\ pc' = "persist"
    /\ UNCHANGED <<email, hibp_key, url, is_demo, resp, breaches_raw, breaches,
                   db_raised, persisted, gets, response, error>>

\* a variant in which a failure of create_document reaches the outer handler
PersistPropagating ==
    /\ pc = "persist"
    /\ persisted' = Append(persisted, result)
    /\ \E raised \in CreateDocumentRaises :
         /\ db_raised' = raised
         /\ IF raised
            THEN /\ \E m \in ExcTexts : error' = InternalError(m)
                 /\ pc' = "done"
            ELSE /\ pc' = "respond"
                 /\ UNCHANGED error
    /\ UNCHANGED <<email, hibp_key, url, is_demo, resp, breaches_raw, breaches,
                   result, gets, response>>

\* a variant that stores only the checks that found something
PersistOnlyFound ==
    /\ pc = "persist"
    /\ persisted' = IF result.found THEN Append(persisted, result) ELSE persisted
    /\ \E raised \in CreateDocumentRaises : db_raised' = raised
    /\ pc' = "respond"
    /\ UNCHANGED <<email, hibp_key, url, is_demo, resp, breaches_raw, breaches,
                   result, gets, response, error>>

\* try: create_document("check", result) except Exception: pass
Persist ==
    /\ pc = "persist"
    /\ persisted' = Append(persisted, result)
    /\ \E raised \in CreateDocumentRaises : db_raised' = raised
    /\ pc' = "respond"
    /\ UNCHANGED <<email, hibp_key, url, is_demo, resp, breaches_raw, breaches,
                   result, gets, response, error>>

\* return EmailCheckResponse(...)
Respond ==
    /\ pc = "respond"
    /\ response' = MakeResponse(email, result)
    /\ pc' = "done"
    /\ UNCHANGED <<email, hibp_key, url, is_demo, resp, breaches_raw, breaches,
                   result, db_raised, persisted, gets, error>>

\* the request is over; nothing of it is kept for the next one
Finish ==
    /\ pc = "done"
    /\ pc' = "idle"
    /\ email' = NoEmail
    /\ hibp_key' = None
    /\ url' = FALSE
    /\ is_demo' = FALSE
    /\ resp' = NoResp
    /\ breaches_raw' = Unset
    /\ breaches' = <<>>
    /\ result' = NoCheck
    /\ db_raised' = FALSE
    /\ persisted' = <<>>
    /\ gets' = 0
    /\ response' = NoResponse
    /\ error' = NoError

Next ==
    \/ Receive
    \/ GetEnv
    \/ Get
    \/ Demo
    \/ Normalize
    \/ Construct
    \/ Persist
    \/ Respond
    \/ Finish

Spec == Init /\ [][Next]_vars

(* ------------------------------------------------------------ properties *)
Succeeded == pc = "done" /\ response.sent
Failed == pc = "done" /\ error.raised

\* C1: every successful response has count = len(breaches), found = (count > 0),
\* is_demo = (source = "demo") and a source that is "hibp" or "demo".
C1_ResponseConsistent ==
    response.sent =>
        /\ response.count = Len(response.breaches)
        /\ response.found = (response.count > 0)
        /\ response.is_demo = (response.source = "demo")
        /\ response.source \in {"hibp", "demo"}
C1_Witness ==
    /\ Succeeded
    /\ response.source = "hibp"
    /\ response.count = 2
    /\ db_raised

\* C2: once create_document has been called the request ends in a successful
\* response, and that response is the one determined by the email, the
\* credential and the records obtained: the same whether create_document
\* raised or not.
C2_PersistFailureHarmless ==
    (pc = "done" /\ persisted # <<>>) =>
        /\ ~error.raised
        /\ response = [sent |-> TRUE, email |-> email,
                       found |-> breaches # <<>>, count |-> Len(breaches),
                       breaches |-> breaches,
                       source |-> IF url THEN "hibp" ELSE "demo",
                       is_demo |-> ~url]
C2_Witness ==
    /\ Succeeded
    /\ db_raised
    /\ response.count > 0

FieldKeys ==
    { <<"Name", "name">>, <<"Domain", "domain">>, <<"BreachDate", "breachDate">>,
      <<"AddedDate", "addedDate">>, <<"PwnCount", "pwnCount">>,
      <<"Description", "description">>, <<"DataClasses", "dataClasses">>,
      <<"IsVerified", "isVerified">> }
Absent == Val("absent", "", 0, FALSE, <<>>)
Logical(d) ==
    [p \in FieldKeys |-> IF p[1] \in DOMAIN d THEN d[p[1]]
                         ELSE IF p[2] \in DOMAIN d THEN d[p[2]]
                         ELSE Absent]
SingleKeyed(d) == \A p \in FieldKeys : ~(p[1] \in DOMAIN d /\ p[2] \in DOMAIN d)

\* C4: two raw records that carry the same values, each field under one of
\* its two key casings, normalize to the same Breach (falsy values included).
C4_CaseInsensitive ==
    breaches_raw.kind = "iterable" =>
        \A i, j \in 1..Len(breaches) :
            LET a == breaches_raw.items[i]
                b == breaches_raw.items[j]
            IN  (a.isdict /\ b.isdict /\ SingleKeyed(a.d) /\ SingleKeyed(b.d)
                    /\ Logical(a.d) = Logical(b.d))
                => breaches[i] = breaches[j]

\* C5: an upstream 404 gives a successful empty "hibp" response, whatever the
\* body of the 404.
C5_NotFoundIsEmpty ==
    (pc = "done" /\ resp.kind = "http" /\ resp.status = 404) =>
        /\ ~error.raised
        /\ response.sent
        /\ response.found = FALSE
        /\ response.count = 0
        /\ response.breaches = <<>>
        /\ response.source = "hibp"
        /\ response.is_demo = FALSE
C5_Witness ==
    /\ Succeeded
    /\ resp.kind = "http" /\ resp.status = 404 /\ resp.text.len = 201

C7_DemoByDomain ==
    (pc = "done" /\ ~Truthy(hibp_key)) =>
        LET d == email[Len(email)]
            matched == IF d \in {"example.com", "Example.COM"} THEN "example.com"
                       ELSE IF d = "test.com" THEN "test.com"
                       ELSE ""
        IN  /\ response.sent
            /\ response.source = "demo"
            /\ response.is_demo
            /\ IF matched # ""
               THEN /\ response.found
                    /\ response.count = 1
                    /\ Len(response.breaches) = 1
                    /\ response.breaches[1].name = PyStr("ExampleBreach")
                    /\ response.breaches[1].domain = PyStr(matched)
                    /\ response.breaches[1].breachDate = PyStr("2023-09-10")
                    /\ response.breaches[1].addedDate = PyStr("2023-10-01")
                    /\ response.breaches[1].pwnCount = PyInt(12345)
                    /\ response.breaches[1].dataClasses =
                           PyList(<<"Email addresses", "Passwords">>)
                    /\ response.breaches[1].isVerified = PyBool(TRUE)
               ELSE /\ ~response.found
                    /\ response.count = 0
                    /\ response.breaches = <<>>
C7_Witness ==
    /\ Succeeded
    /\ hibp_key = PyStr("")
    /\ email = <<"Bob", "@", "Example.COM">>
    /\ response.count = 1

\* C8: a network failure of the GET ends in a 500 with a detail of at most 200
\* characters and no response; every error that leaves the handler carries
\* either the upstream status or 500.
C8_FailureClasses ==
    /\ (pc = "done" /\ resp = NetErr) =>
            /\ error.raised
            /\ error.status_code = 500
            /\ error.detail.len <= 200
            /\ ~response.sent
    /\ error.raised =>
            /\ ~response.sent
            /\ \/ error.status_code = 500 /\ error.detail.len <= 200
               \/ resp.kind = "http" /\ error.status_code = resp.status
C8_Witness ==
    /\ Failed
    /\ resp = NetErr
    /\ error.detail.len = 200

\* C9: a successful response holds one Breach per raw record, the i-th being
\* the normalization of the i-th record; if a record cannot be normalized the
\* request ends in an error and no response.
C9_NoPartialResults ==
    LET bad(b) == ~b.isdict \/ ~BreachValid(NormalizeRecord(b.d)) IN
    /\ response.sent =>
            /\ breaches_raw.kind = "iterable"
            /\ Len(response.breaches) = Len(breaches_raw.items)
            /\ \A i \in 1..Len(breaches_raw.items) :
                   /\ ~bad(breaches_raw.items[i])
                   /\ response.breaches[i] = NormalizeRecord(breaches_raw.items[i].d)
    /\ (pc \in {"construct", "persist", "respond", "done"}
          /\ \E i \in 1..Len(breaches_raw.items) : bad(breaches_raw.items[i])) =>
            /\ error.raised
            /\ ~response.sent
            /\ pc = "done"
C9_Witness ==
    /\ Succeeded
    /\ Len(response.breaches) = 2
    /\ response.breaches[1] # response.breaches[2]
    /\ response.breaches[1] = NormalizeRecord(HibpLower)
    /\ response.breaches[2] = NormalizeRecord(FalsyUpper)

\* C10: create_document is called exactly once on a request that succeeds,
\* with the constructed Check, whose fields are those of the response, and
\* before the response exists; a request that fails never calls it.
C10_PersistOncePerSuccess ==
    /\ Len(persisted) <= 1
    /\ persisted # <<>> => result.made /\ persisted[1] = result
    /\ pc \in {"respond", "done"} /\ ~error.raised => Len(persisted) = 1
    /\ response.sent =>
            /\ Len(persisted) = 1
            /\ persisted[1].email = response.email
            /\ persisted[1].found = response.found
            /\ persisted[1].count = response.count
            /\ persisted[1].breaches = response.breaches
            /\ persisted[1].source = response.source
            /\ persisted[1].is_demo = response.is_demo
    /\ error.raised => persisted = <<>>
C10_Witness ==
    /\ Succeeded
    /\ Len(persisted) = 1
    /\ ~response.found
    /\ persisted[1].source = "hibp"

====
